---- MODULE Spec2Model ----
(***************************************************************************)
(* Model of detectCycleBFS (src/cyclic_bfs.cpp): Kahn's algorithm over an  *)
(* adjacency matrix, followed by the parent-trace reconstruction of a      *)
(* cycle.  One behaviour is one call of detectCycleBFS on one matrix.      *)
(*                                                                         *)
(* Vertices are 0..numVertices-1, so the vectors are functions over that   *)
(* range.  An access outside a vector is undefined behaviour: the model    *)
(* lets it either crash the process or read the unknown word that lies     *)
(* beside the vector (outParent, outVisited hold, for the indices already  *)
(* accessed, what those words contain).                                    *)
(***************************************************************************)
EXTENDS Integers, Sequences, FiniteSets

VARIABLES adj, pc, inDegree, parent, q, processedCount, u, v,
          cycleNode, visitedInCycle, current, cycleStartNode, cyclePath,
          result, dequeued, outParent, outVisited

\* adj             the matrix the call is given
\* pc              where the call is
\* inDegree .. cyclePath   the locals of detectCycleBFS, under their names;
\*                 at "done" cyclePath is the path that was printed
\* result          the classification that was printed, "NONE" before
\* dequeued        history: the vertices popped from q, in order
\* outParent, outVisited   the words beside parent and visitedInCycle that
\*                 an out-of-bounds index has reached, by index
vars == <<adj, pc, inDegree, parent, q, processedCount, u, v,
          cycleNode, visitedInCycle, current, cycleStartNode, cyclePath,
          result, dequeued, outParent, outVisited>>

(* ---------------------------- bounds ----------------------------------- *)

\* largest vertex count of the well-formed graphs explored
MaxN == 3
\* largest row count of the malformed matrices explored
MaxBadN == 1
\* the entries of cyclePath that are kept; a loop that never returns to
\* cycleStartNode goes on pushing, and the model drops what it pushes past this
MaxPath == 6

(* ---------------------------- inputs ----------------------------------- *)

RowsOf(lens, vals) == UNION {[0..(l - 1) -> vals] : l \in lens}

\* square 0/1 matrices, 0..MaxN rows
WellFormedMatrices == UNION {[0..(n - 1) -> RowsOf({n}, {0, 1})] : n \in 0..MaxN}

\* square matrices holding a value other than 0 and 1
BadValueMatrices == UNION {[0..(n - 1) -> RowsOf({n}, {0, 1, 2})] : n \in 1..MaxBadN}

\* 0/1 matrices whose rows are one shorter or one longer than the row count
RaggedMatrices == UNION {[0..(n - 1) -> RowsOf((n - 1)..(n + 1), {0, 1})] : n \in 1..MaxBadN}

Matrices == WellFormedMatrices \cup BadValueMatrices \cup RaggedMatrices

\* line 27: adjMatrix.size()
numVertices == Cardinality(DOMAIN adj)

\* the indices of the vectors of lines 33-34 and 89
Vertices == 0..(numVertices - 1)

\* the matrix is square and holds only 0 and 1
WellFormed(m) ==
    \A r \in DOMAIN m : /\ DOMAIN m[r] = DOMAIN m
                        /\ \A c \in DOMAIN m[r] : m[r][c] \in {0, 1}

(* ---------------------- reads that may be out of bounds ---------------- *)

\* adjMatrix[r][c]: the cell, or any word when c is past the end of row r
CellValues(r, c) == IF c \in DOMAIN adj[r] THEN {adj[r][c]} ELSE {0, 1}

\* the cells the loops index that lie past the end of their row
OutCells == {rc \in Vertices \X Vertices : rc[2] \notin DOMAIN adj[rc[1]]}

\* the ints an unknown word is abstracted to: a vertex, or -1 for every int
\* that is no vertex
WildInts == (-1)..(numVertices - 1)

\* parent[k]
ParentValues(k) ==
    IF k \in Vertices THEN {parent[k]}
    ELSE IF k \in DOMAIN outParent THEN {outParent[k]} ELSE WildInts

\* visitedInCycle[k]
VisitedValues(k) ==
    IF k \in Vertices THEN {visitedInCycle[k]}
    ELSE IF k \in DOMAIN outVisited THEN {outVisited[k]} ELSE BOOLEAN

\* the next statement indexes a vector outside its bounds
OutOfBoundsAccess ==
    \/ pc = "scan" /\ OutCells # {}
    \/ pc = "relax" /\ v \notin DOMAIN adj[u]
    \/ pc \in {"walk1", "walk2"} /\ current \notin Vertices

\* a word beside parent or visitedInCycle has been read or written
HeapTouched == DOMAIN outParent # {} \/ DOMAIN outVisited # {}

(* ---------------------------- helpers ---------------------------------- *)

\* the word at index k beside a vector is now known to hold val
Learn(f, k, val) == [x \in DOMAIN f \cup {k} |-> IF x = k THEN val ELSE f[x]]

\* variant of CountEdge: the edge is counted at its source
CountEdgeWrongEnd(deg, r, c, val) == IF val = 1 THEN [deg EXCEPT ![r] = @ + 1] ELSE deg

\* lines 39-41: if (adjMatrix[i][j] == 1) inDegree[j]++
CountEdge(deg, r, c, val) == IF val = 1 THEN [deg EXCEPT ![c] = @ + 1] ELSE deg

\* lines 37-43: the scan from cell (r, c) on, rows then columns; wild gives
\* what the reads past the end of a row return
RECURSIVE ScanFrom(_, _, _, _)
ScanFrom(deg, r, c, wild) ==
    IF r >= numVertices THEN deg
    ELSE LET val == IF c \in DOMAIN adj[r] THEN adj[r][c] ELSE wild[<<r, c>>]
             nxt == CountEdge(deg, r, c, val)
         IN  IF c + 1 < numVertices THEN ScanFrom(nxt, r, c + 1, wild)
             ELSE ScanFrom(nxt, r + 1, 0, wild)

\* lines 47-51: the zero in-degree vertices, ascending
RECURSIVE SeedFrom(_, _)
SeedFrom(deg, k) ==
    IF k >= numVertices THEN <<>>
    ELSE IF deg[k] = 0 THEN <<k>> \o SeedFrom(deg, k + 1)
    ELSE SeedFrom(deg, k + 1)

\* variant of RecordParent: the first writer is kept
RecordParentFirst(par, from, to) == IF par[to] = -1 THEN [par EXCEPT ![to] = from] ELSE par

\* line 66: parent[v] = u
RecordParent(par, from, to) == [par EXCEPT ![to] = from]

\* variant of ShouldEnqueue: the test for zero is lost
ShouldEnqueueAlways(d) == d >= 0

\* line 67: if (inDegree[v] == 0)
ShouldEnqueue(d) == d = 0

\* variant of IsCyclic: off by one
IsCyclicOffByOne(cnt, n) == cnt + 1 < n

\* line 75: if (processedCount < numVertices)
IsCyclic(cnt, n) == cnt < n

\* lines 79-85: the lowest vertex with in-degree > 0, else -1
FirstPositive(deg) ==
    IF \E k \in Vertices : deg[k] > 0
    THEN CHOOSE k \in Vertices : deg[k] > 0 /\ \A l \in Vertices : deg[l] > 0 => k <= l
    ELSE -1

\* line 104: std::reverse
Reverse(s) == [k \in 1..Len(s) |-> s[Len(s) + 1 - k]]

(* ---------------------------- Init ------------------------------------- *)

Init ==
    /\ adj \in Matrices
    /\ pc = "start"
    /\ inDegree = <<>>
    /\ parent = <<>>
    /\ q = <<>>
    /\ processedCount = 0
    /\ u = 0
    /\ v = 0
    /\ cycleNode = -1
    /\ visitedInCycle = <<>>
    /\ current = -1
    /\ cycleStartNode = -1
    /\ cyclePath = <<>>
    /\ result = "NONE"
    /\ dequeued = <<>>
    /\ outParent = <<>>
    /\ outVisited = <<>>

(* ---------------------------- actions ---------------------------------- *)

\* line 115 and the death of the process: the locals of the call are gone
Destroyed ==
    /\ inDegree' = <<>>
    /\ parent' = <<>>
    /\ q' = <<>>
    /\ processedCount' = 0
    /\ u' = 0
    /\ v' = 0
    /\ cycleNode' = -1
    /\ visitedInCycle' = <<>>
    /\ current' = -1
    /\ cycleStartNode' = -1
    /\ dequeued' = <<>>
    /\ outParent' = <<>>
    /\ outVisited' = <<>>

\* lines 27-31: the empty graph
EnterEmpty ==
    /\ pc = "start"
    /\ numVertices = 0
    /\ result' = "EMPTY"
    /\ pc' = "done"
    /\ UNCHANGED <<adj, inDegree, parent, q, processedCount, u, v, cycleNode,
                   visitedInCycle, current, cycleStartNode, cyclePath, dequeued,
                   outParent, outVisited>>

\* lines 27-34: the tables are created
Enter ==
    /\ pc = "start"
    /\ numVertices # 0
    /\ inDegree' = [k \in Vertices |-> 0]
    /\ parent' = [k \in Vertices |-> -1]
    /\ pc' = "scan"
    /\ UNCHANGED <<adj, q, processedCount, u, v, cycleNode, visitedInCycle, current,
                   cycleStartNode, cyclePath, result, dequeued, outParent, outVisited>>

\* lines 37-43: the in-degree scan
ComputeInDegrees ==
    /\ pc = "scan"
    /\ \E wild \in [OutCells -> {0, 1}] : inDegree' = ScanFrom(inDegree, 0, 0, wild)
    /\ pc' = "seed"
    /\ UNCHANGED <<adj, parent, q, processedCount, u, v, cycleNode, visitedInCycle,
                   current, cycleStartNode, cyclePath, result, dequeued, outParent,
                   outVisited>>

\* lines 46-53: the queue is seeded
SeedQueue ==
    /\ pc = "seed"
    /\ q' = SeedFrom(inDegree, 0)
    /\ processedCount' = 0
    /\ pc' = "kahn"
    /\ UNCHANGED <<adj, inDegree, parent, u, v, cycleNode, visitedInCycle,
                   current, cycleStartNode, cyclePath, result, dequeued, outParent,
                   outVisited>>

\* lines 54-57: a vertex leaves the queue
Dequeue ==
    /\ pc = "kahn"
    /\ q # <<>>
    /\ u' = Head(q)
    /\ q' = Tail(q)
    /\ processedCount' = processedCount + 1
    /\ dequeued' = Append(dequeued, Head(q))
    /\ v' = 0
    /\ pc' = "relax"
    /\ UNCHANGED <<adj, inDegree, parent, cycleNode, visitedInCycle, current,
                   cycleStartNode, cyclePath, result, outParent, outVisited>>

\* lines 60-71: one neighbour candidate v of u
Relax ==
    /\ pc = "relax"
    /\ \E val \in CellValues(u, v) :
          IF val = 1
          THEN /\ inDegree' = [inDegree EXCEPT ![v] = @ - 1]
               /\ parent' = RecordParent(parent, u, v)
               /\ q' = IF ShouldEnqueue(inDegree'[v]) THEN Append(q, v) ELSE q
          ELSE UNCHANGED <<inDegree, parent, q>>
    /\ v' = v + 1
    /\ pc' = IF v + 1 < numVertices THEN "relax" ELSE "kahn"
    /\ UNCHANGED <<adj, processedCount, u, cycleNode, visitedInCycle, current,
                   cycleStartNode, cyclePath, result, dequeued, outParent, outVisited>>

\* lines 75-76, 112-114: the classification
Classify ==
    /\ pc = "kahn"
    /\ q = <<>>
    /\ IF IsCyclic(processedCount, numVertices)
       THEN /\ result' = "CYCLIC"
            /\ pc' = "find"
            /\ UNCHANGED <<inDegree, parent, q, processedCount, u, v, cycleNode,
                           visitedInCycle, current, cycleStartNode, dequeued,
                           outParent, outVisited>>
       ELSE /\ result' = "ACYCLIC"
            /\ pc' = "done"
            /\ Destroyed
    /\ UNCHANGED <<adj, cyclePath>>

\* lines 79-90: the start of the trace
FindCycleNode ==
    /\ pc = "find"
    /\ cycleNode' = FirstPositive(inDegree)
    /\ cyclePath' = <<>>
    /\ visitedInCycle' = [k \in Vertices |-> FALSE]
    /\ current' = FirstPositive(inDegree)
    /\ pc' = "walk1"
    /\ UNCHANGED <<adj, inDegree, parent, q, processedCount, u, v,
                   cycleStartNode, result, dequeued, outParent, outVisited>>

\* lines 92-95: current is not yet marked: mark it and step to its parent
Walk1Mark ==
    /\ pc = "walk1"
    /\ FALSE \in VisitedValues(current)
    /\ IF current \in Vertices
       THEN /\ visitedInCycle' = [visitedInCycle EXCEPT ![current] = TRUE]
            /\ UNCHANGED outVisited
       ELSE /\ outVisited' = Learn(outVisited, current, TRUE)
            /\ UNCHANGED visitedInCycle
    /\ \E nxt \in ParentValues(current) :
          /\ current' = nxt
          /\ outParent' = IF current \in Vertices THEN outParent
                          ELSE Learn(outParent, current, nxt)
    /\ UNCHANGED <<adj, pc, inDegree, parent, q, processedCount, u, v, cycleNode,
                   cycleStartNode, cyclePath, result, dequeued>>

\* lines 92, 98: current is already marked: it becomes cycleStartNode
Walk1Found ==
    /\ pc = "walk1"
    /\ TRUE \in VisitedValues(current)
    /\ outVisited' = IF current \in Vertices THEN outVisited
                     ELSE Learn(outVisited, current, TRUE)
    /\ cycleStartNode' = current
    /\ pc' = "walk2"
    /\ UNCHANGED <<adj, inDegree, parent, q, processedCount, u, v, cycleNode,
                   visitedInCycle, current, cyclePath, result, dequeued, outParent>>

\* lines 99-102: one round of the do-while
Walk2Step ==
    /\ pc = "walk2"
    /\ cyclePath' = IF Len(cyclePath) < MaxPath THEN Append(cyclePath, current)
                    ELSE cyclePath
    /\ \E nxt \in ParentValues(current) :
          /\ current' = nxt
          /\ outParent' = IF current \in Vertices THEN outParent
                          ELSE Learn(outParent, current, nxt)
          /\ pc' = IF nxt # cycleStartNode THEN "walk2" ELSE "report"
    /\ UNCHANGED <<adj, inDegree, parent, q, processedCount, u, v, cycleNode,
                   visitedInCycle, cycleStartNode, result, dequeued, outVisited>>

\* lines 104-115: the path is reversed and printed and the call returns; the
\* return frees the vectors, which can abort once a word beside one was touched
Report ==
    /\ pc = "report"
    /\ cyclePath' = Reverse(cyclePath)
    /\ pc' \in IF HeapTouched THEN {"done", "crashed"} ELSE {"done"}
    /\ Destroyed
    /\ UNCHANGED <<adj, result>>

\* an out-of-bounds access ends the process; what was printed stays
Crash ==
    /\ OutOfBoundsAccess
    /\ pc' = "crashed"
    /\ cyclePath' = <<>>
    /\ Destroyed
    /\ UNCHANGED <<adj, result>>

Next ==
    \/ EnterEmpty
    \/ Enter
    \/ ComputeInDegrees
    \/ SeedQueue
    \/ Dequeue
    \/ Relax
    \/ Classify
    \/ FindCycleNode
    \/ Walk1Mark
    \/ Walk1Found
    \/ Walk2Step
    \/ Report
    \/ Crash

Spec == Init /\ [][Next]_vars

\* the call is a single thread that runs until it returns or the process dies
FairSpec == Spec /\ WF_vars(Next)

(* ---------------------------- ground truth ----------------------------- *)
(* What the claims speak of: the graph the matrix stands for (an edge is a *)
(* cell the code's test == 1 accepts), its cycles, which the program never *)
(* computes, and the positions and history of the Kahn loop.               *)

\* the edge a -> b of the input graph
Edge(a, b) == a \in DOMAIN adj /\ b \in DOMAIN adj[a] /\ adj[a][b] = 1

Succ(S) == {b \in Vertices : \E a \in S : Edge(a, b)}

RECURSIVE Grow(_, _)
Grow(S, k) == IF k = 0 THEN S ELSE Grow(S \cup Succ(S), k - 1)

\* the vertices reached from a along one or more edges
ReachPlus(a) == Grow(Succ({a}), numVertices)

OnCycle(a) == a \in ReachPlus(a)

HasCycle == \E a \in Vertices : OnCycle(a)

\* path is a directed cycle of the graph, in edge order
IsCycleOfGraph(path) ==
    /\ Len(path) >= 1
    /\ \A k \in 1..Len(path) : path[k] \in Vertices
    /\ \A k \in 1..(Len(path) - 1) : Edge(path[k], path[k + 1])
    /\ Edge(path[Len(path)], path[1])

Range(s) == {s[k] : k \in DOMAIN s}

NoDuplicates(s) == \A k, l \in DOMAIN s : s[k] = s[l] => k = l

\* the Kahn loop has just ended: its exit test, and the state the
\* classification leaves
KahnEnded ==
    \/ pc = "kahn" /\ q = <<>>
    \/ pc = "find"

\* the in-degree scan or the Kahn loop is running, or the loop has just ended
InKahn == pc \in {"scan", "seed", "kahn", "relax"} \/ KahnEnded

\* the dequeued vertices whose scan of neighbours has passed w
RelaxedFor(w) ==
    IF pc = "relax" /\ w >= v THEN SubSeq(dequeued, 1, Len(dequeued) - 1) ELSE dequeued

\* the last of them with an edge into w, else -1
LastWriter(w) ==
    LET R == RelaxedFor(w)
        S == {k \in 1..Len(R) : Edge(R[k], w)}
    IN  IF S = {} THEN -1 ELSE R[CHOOSE k \in S : \A l \in S : l <= k]

\* the edges into w that the in-degree scan has counted
Counted(w) == IF pc \in {"start", "scan"} THEN {} ELSE {a \in Vertices : Edge(a, w)}

(* ---------------------------- claims ----------------------------------- *)

\* C1: on a well-formed graph the call classifies, and the classification is
\* CYCLIC exactly when some vertex reaches itself along one or more edges:
\* when the Kahn loop has ended, processedCount < numVertices iff the graph
\* has a cycle (the empty graph is reported as empty, which is not cyclic).
\* The ground truth is compared where the classification is made (result is
\* written once); past that point the call always has a classification.
C1_ClassificationMatchesGroundTruth ==
    /\ KahnEnded /\ WellFormed(adj) =>
          (processedCount < numVertices <=> HasCycle)
    /\ pc = "find" /\ WellFormed(adj) => result = "CYCLIC" /\ HasCycle
    /\ pc = "done" /\ result # "CYCLIC" /\ WellFormed(adj) =>
          result \in {"ACYCLIC", "EMPTY"} /\ ~HasCycle
    /\ pc \in {"walk1", "walk2", "report"} => result = "CYCLIC"
    /\ pc = "crashed" => result = "CYCLIC" \/ ~WellFormed(adj)

C1_Witness ==
    /\ WellFormed(adj)
    /\ numVertices = 3
    /\ pc = "find"
    /\ result = "CYCLIC"
    /\ processedCount >= 1
    /\ HasCycle

\* C2: whenever the call has classified a well-formed graph as CYCLIC and
\* returned, the printed cyclePath is non-empty, consecutive vertices are
\* joined by an edge and the last has an edge to the first.
C2_WitnessIsCycle ==
    WellFormed(adj) /\ result = "CYCLIC" /\ pc = "done" => IsCycleOfGraph(cyclePath)

\* C3: on every well-formed graph the call eventually returns.
C3_Terminates == WellFormed(adj) => <>(pc = "done")

\* C4: on a well-formed graph every value of current that indexes
\* visitedInCycle or parent in the first walk is a vertex, and the vertex the
\* walk stops at lies on a directed cycle.
C4_WalkStaysInRange ==
    WellFormed(adj) =>
        /\ pc = "walk1" => current \in Vertices
        /\ pc = "walk2" => cycleStartNode \in Vertices /\ OnCycle(cycleStartNode)

\* C5: a well-formed graph with a self-loop is classified CYCLIC, and for the
\* single vertex with a self-loop the call ends with the witness <<0>>.
C5_SelfLoop ==
    WellFormed(adj) /\ (\E k \in Vertices : Edge(k, k)) =>
        /\ result # "NONE" => result = "CYCLIC"
        /\ numVertices = 1 /\ pc \in {"done", "crashed"} => pc = "done" /\ cyclePath = <<0>>

\* C6: on a malformed matrix nothing is computed: no in-degree, predecessor
\* or worklist state and no classification.
C6_MalformedRejected ==
    ~WellFormed(adj) =>
        /\ result = "NONE"
        /\ inDegree = <<>>
        /\ parent = <<>>
        /\ q = <<>>

\* C7: on a well-formed graph every in-degree is >= 0 in every state; while
\* the scan and the Kahn loop run it is the number of counted edges into the
\* vertex less the number of those edges whose source has been dequeued and
\* has relaxed the vertex (afterwards inDegree is not written).
C7_InDegreeNonNegative ==
    /\ (\A w \in DOMAIN inDegree : inDegree[w] >= 0) \/ ~WellFormed(adj)
    /\ InKahn /\ WellFormed(adj) =>
          \A w \in DOMAIN inDegree :
              inDegree[w] = Cardinality(Counted(w))
                            - Cardinality({a \in Range(RelaxedFor(w)) : Edge(a, w)})

C7_Witness ==
    /\ WellFormed(adj)
    /\ numVertices = 3
    /\ pc = "relax"
    /\ \E w \in Vertices : w < v /\ Edge(u, w) /\ inDegree[w] = 0
    /\ \E w \in Vertices : w < v /\ Edge(u, w) /\ inDegree[w] > 0

\* C8: when the Kahn loop ends with processedCount < numVertices on a
\* well-formed graph, every vertex with in-degree > 0 lies on a directed cycle,
\* and so does cycleNode.
C8_StuckVerticesOnCycle ==
    WellFormed(adj) =>
        /\ pc = "kahn" /\ q = <<>> /\ processedCount < numVertices =>
              \A w \in Vertices : inDegree[w] > 0 => OnCycle(w)
        /\ pc = "walk1" => OnCycle(cycleNode)

\* C9: on a well-formed graph, at every point of the Kahn loop parent[w] is -1
\* when no dequeued vertex has relaxed an edge into w, and else the most
\* recently dequeued vertex that has; so parent[w] # -1 is a dequeued vertex
\* with an edge into w.
C9_LastWriterWins ==
    InKahn /\ WellFormed(adj) =>
        \A w \in DOMAIN parent :
            /\ parent[w] = LastWriter(w)
            /\ parent[w] # -1 => Edge(parent[w], w) /\ parent[w] \in Range(dequeued)

C9_Witness ==
    /\ WellFormed(adj)
    /\ pc = "kahn"
    /\ \E w \in Vertices :
          /\ Cardinality({k \in 1..Len(dequeued) : Edge(dequeued[k], w)}) >= 2
          /\ parent[w] = dequeued[Len(dequeued)]

\* C10: on a well-formed graph no vertex is enqueued or dequeued twice and
\* processedCount <= numVertices in every state; when the loop has ended the
\* dequeued vertices are those with in-degree 0, and in the cyclic case
\* cycleNode is a vertex with in-degree > 0.
C10_EachVertexOnce ==
    /\ NoDuplicates(dequeued \o q) \/ ~WellFormed(adj)
    /\ processedCount <= numVertices \/ ~WellFormed(adj)
    /\ InKahn => processedCount = Len(dequeued)
    /\ KahnEnded /\ WellFormed(adj) =>
          Range(dequeued) = {w \in Vertices : inDegree[w] = 0}
    /\ pc \in {"walk1", "walk2", "report"} =>
          (cycleNode \in Vertices /\ inDegree[cycleNode] > 0) \/ ~WellFormed(adj)

C10_Witness ==
    /\ WellFormed(adj)
    /\ numVertices = 3
    /\ pc = "walk1"
    /\ processedCount = 2
    /\ cycleNode = 1

====
